---- MODULE Spec2Model ----
(***************************************************************************)
(* Model of the grammY runtime filter query plugin (src/src/mod.ts).       *)
(*                                                                         *)
(* A query string is a sequence of tokens: the separator ":" or a word (a  *)
(* maximal run of characters other than ":"), so no two words are          *)
(* adjacent.  A JavaScript value is a record with the fields kind, prim,   *)
(* props and elems; an absent array slot of a parsed query is the segment  *)
(* UNDEF.                                                                  *)
(***************************************************************************)
EXTENDS Integers, Sequences, FiniteSets, TLC

(***************************************************************************)
(* Bounds of the input space.                                              *)
(***************************************************************************)
\* longest array of query strings handed to runtimeQuery
MaxQueries == 2
\* longest array found as the value of a message property
MaxItems == 2

(***************************************************************************)
(* JavaScript values.                                                      *)
(***************************************************************************)
UNDEF == "<undefined>"

Undefined == [kind |-> "undefined", prim |-> "", props |-> <<>>, elems |-> <<>>]
Null == [kind |-> "null", prim |-> "", props |-> <<>>, elems |-> <<>>]
Str(s) == [kind |-> "string", prim |-> s, props |-> <<>>, elems |-> <<>>]
Num0 == [kind |-> "number", prim |-> "0", props |-> <<>>, elems |-> <<>>]
False == [kind |-> "boolean", prim |-> "false", props |-> <<>>, elems |-> <<>>]
Obj(p) == [kind |-> "object", prim |-> "", props |-> p, elems |-> <<>>]
Arr(e) == [kind |-> "array", prim |-> "", props |-> <<>>, elems |-> e]
\* a value inherited from a prototype (Object.prototype.constructor, ...)
Inherited == [kind |-> "function", prim |-> "", props |-> <<>>, elems |-> <<>>]
\* the completion of an expression that threw a TypeError
Thrown == [kind |-> "TypeError", prim |-> "", props |-> <<>>, elems |-> <<>>]

\* x == null
IsNullish(v) == v.kind \in {"undefined", "null"}

\* names every object, array and primitive wrapper inherits
ProtoKeys == {"constructor", "toString"}

\* obj[k]: own property, else inherited one, else undefined; a TypeError
\* when obj is null or undefined
Get(obj, k) ==
    IF IsNullish(obj) THEN Thrown
    ELSE IF obj.kind = "object" /\ k \in DOMAIN obj.props THEN obj.props[k]
    ELSE IF k \in ProtoKeys THEN Inherited
    ELSE Undefined

(***************************************************************************)
(* Shortcut tables.                                                        *)
(***************************************************************************)
L1_SHORTCUTS ==
    [k \in {"", "msg", "edit"} |->
        IF k = "edit" THEN <<"edited_message", "edited_channel_post">>
        ELSE <<"message", "channel_post">>]

L2_SHORTCUTS ==
    [k \in {"", "media", "file"} |->
        CASE k = "" -> <<"entities", "caption_entities">>
          [] k = "media" -> <<"photo", "video">>
          [] k = "file" -> <<"photo", "animation", "audio", "document",
                             "video", "video_note", "voice", "sticker">>]

\* k in table: own keys of the object literal and the keys of Object.prototype
In(k, table) == k \in DOMAIN table \/ k \in ProtoKeys

(***************************************************************************)
(* parse: query.split(":")                                                 *)
(***************************************************************************)
RECURSIVE Split(_, _, _)
Split(query, i, cur) ==
    IF i > Len(query) THEN <<cur>>
    ELSE IF query[i] = ":" THEN <<cur>> \o Split(query, i + 1, "")
    ELSE Split(query, i + 1, query[i])

\* a split that drops a trailing empty segment
parse_DropTrailingEmpty(query) ==
    LET parts == Split(query, 1, "")
    IN  IF Len(parts) > 1 /\ parts[Len(parts)] = ""
        THEN SubSeq(parts, 1, Len(parts) - 1)
        ELSE parts

parse(query) == Split(query, 1, "")

(***************************************************************************)
(* expand                                                                  *)
(***************************************************************************)
\* destructuring const [l1, l2, l3] = parts
At(parts, i) == IF i <= Len(parts) THEN parts[i] ELSE UNDEF

\* !s
Falsy(s) == s = UNDEF \/ s = ""

\* the callback of the flatMap over the L1 candidates, for the candidate q
L2Step(q) ==
    IF q[2] # UNDEF /\ In(q[2], L2_SHORTCUTS)
    THEN [i \in 1..Len(L2_SHORTCUTS[q[2]]) |->
             <<q[1], L2_SHORTCUTS[q[2]][i], q[3]>>]
    ELSE <<q>>

\* targets.map throws in that callback: targets is inherited, not an array
L2Throws(q) ==
    q[2] # UNDEF /\ In(q[2], L2_SHORTCUTS) /\ q[2] \notin DOMAIN L2_SHORTCUTS

RECURSIVE FlatMapL2(_)
\* expanded.flatMap(callback)
FlatMapL2(expanded) ==
    IF expanded = <<>> THEN <<>>
    ELSE L2Step(Head(expanded)) \o FlatMapL2(Tail(expanded))

\* expand keeping only the first target of an L1 shortcut
expand_FirstL1Target(parts) ==
    LET l1 == At(parts, 1)
        l2 == At(parts, 2)
        l3 == At(parts, 3)
        step1 ==
            IF In(l1, L1_SHORTCUTS)
            THEN IF l1 \in DOMAIN L1_SHORTCUTS
                 THEN [err |-> "",
                       paths |-> <<<<L1_SHORTCUTS[l1][1], l2, l3>>>>]
                 ELSE [err |-> "TypeError", paths |-> <<>>]
            ELSE [err |-> "", paths |-> <<<<l1, l2, l3>>>>]
    IN  IF Falsy(l1) /\ Falsy(l2) /\ Falsy(l3)
        THEN [err |-> "", paths |-> <<parts>>]
        ELSE IF step1.err # "" THEN step1
        ELSE IF \E i \in 1..Len(step1.paths) : L2Throws(step1.paths[i])
        THEN [err |-> "TypeError", paths |-> <<>>]
        ELSE [err |-> "", paths |-> FlatMapL2(step1.paths)]

\* result of expand: err names the exception thrown, "" when none
\* (targets.map on an inherited, non-array value is a TypeError)
expand(parts) ==
    LET l1 == At(parts, 1)
        l2 == At(parts, 2)
        l3 == At(parts, 3)
        step1 ==
            IF In(l1, L1_SHORTCUTS)
            THEN IF l1 \in DOMAIN L1_SHORTCUTS
                 THEN [err |-> "",
                       paths |-> [i \in 1..Len(L1_SHORTCUTS[l1]) |->
                                     <<L1_SHORTCUTS[l1][i], l2, l3>>]]
                 ELSE [err |-> "TypeError", paths |-> <<>>]
            ELSE [err |-> "", paths |-> <<<<l1, l2, l3>>>>]
    IN  IF Falsy(l1) /\ Falsy(l2) /\ Falsy(l3)
        THEN [err |-> "", paths |-> <<parts>>]
        ELSE IF step1.err # "" THEN step1
        ELSE IF \E i \in 1..Len(step1.paths) : L2Throws(step1.paths[i])
        THEN [err |-> "TypeError", paths |-> <<>>]
        ELSE [err |-> "", paths |-> FlatMapL2(step1.paths)]

(***************************************************************************)
(* Predicates.  A predicate built by buildPredicate is the closure over    *)
(* its parts; calling it yields "true", "false" or "TypeError".            *)
(***************************************************************************)
\* L3Test without the comparison of item.type
L3Test_NoType(item, l3) ==
    LET v == Get(item, l3)
    IN  IF v.kind = "TypeError" THEN "TypeError"
        ELSE IF v.kind # "undefined" /\ v.kind # "null" THEN "true"
        ELSE "false"

\* (item[l3] !== undefined && item[l3] !== null) || item.type === l3
L3Test(item, l3) ==
    LET v == Get(item, l3)
        ty == Get(item, "type")
    IN  IF v.kind = "TypeError" THEN "TypeError"
        ELSE IF v.kind # "undefined" /\ v.kind # "null" THEN "true"
        ELSE IF ty.kind = "string" /\ ty.prim = l3 THEN "true"
        ELSE "false"

RECURSIVE Some(_, _, _)
\* t.some(p) from index i on, for p = (x) => x != null && pred(x) and pred
\* the L3 item test of buildPredicate
Some(elems, l3, i) ==
    IF i > Len(elems) THEN "false"
    ELSE LET r == IF IsNullish(elems[i]) THEN "false" ELSE L3Test(elems[i], l3)
         IN  IF r = "false" THEN Some(elems, l3, i + 1) ELSE r

\* testMaybeArray(t, pred) for that pred
testMaybeArray(t, l3) ==
    IF t.kind = "array" THEN Some(t.elems, l3, 1)
    ELSE IF IsNullish(t) THEN "false" ELSE L3Test(t, l3)

\* buildPredicate rejecting only an absent l1
buildPredicateErr_UndefinedOnly(parts) ==
    IF At(parts, 1) = UNDEF THEN "Empty filter query given" ELSE ""

\* the exception buildPredicate throws for parts, "" when it returns
buildPredicateErr(parts) ==
    IF At(parts, 1) = UNDEF \/ At(parts, 1) = ""
    THEN "Empty filter query given"
    ELSE ""

\* the predicate testing !l1Value instead of l1Value == null
Predicate_Truthy(parts, update) ==
    LET l1 == At(parts, 1)
        l2 == At(parts, 2)
        l3 == At(parts, 3)
        l1Value == Get(update, l1)
        l2Value == Get(l1Value, l2)
        FalsyValue(v) ==
            \/ IsNullish(v)
            \/ v.kind = "number" /\ v.prim = "0"
            \/ v.kind = "boolean" /\ v.prim = "false"
            \/ v.kind = "string" /\ v.prim = ""
    IN  IF l1Value.kind = "TypeError" THEN "TypeError"
        ELSE IF FalsyValue(l1Value) THEN "false"
        ELSE IF l2 = UNDEF THEN "true"
        ELSE IF l2Value.kind = "TypeError" THEN "TypeError"
        ELSE IF IsNullish(l2Value) THEN "false"
        ELSE IF l3 = UNDEF THEN "true"
        ELSE testMaybeArray(l2Value, l3)

\* the predicate without the check of l1Value
Predicate_NoL1Check(parts, update) ==
    LET l1 == At(parts, 1)
        l2 == At(parts, 2)
        l3 == At(parts, 3)
        l1Value == Get(update, l1)
        l2Value == Get(l1Value, l2)
    IN  IF l1Value.kind = "TypeError" THEN "TypeError"
        ELSE IF l2 = UNDEF THEN "true"
        ELSE IF l2Value.kind = "TypeError" THEN "TypeError"
        ELSE IF IsNullish(l2Value) THEN "false"
        ELSE IF l3 = UNDEF THEN "true"
        ELSE testMaybeArray(l2Value, l3)

\* the predicate without the check of l2Value
Predicate_NoL2Check(parts, update) ==
    LET l1 == At(parts, 1)
        l2 == At(parts, 2)
        l3 == At(parts, 3)
        l1Value == Get(update, l1)
        l2Value == Get(l1Value, l2)
    IN  IF l1Value.kind = "TypeError" THEN "TypeError"
        ELSE IF IsNullish(l1Value) THEN "false"
        ELSE IF l2 = UNDEF THEN "true"
        ELSE IF l2Value.kind = "TypeError" THEN "TypeError"
        ELSE IF l3 = UNDEF THEN "true"
        ELSE testMaybeArray(l2Value, l3)

\* the closure buildPredicate(parts) returns, called with update
Predicate(parts, update) ==
    LET l1 == At(parts, 1)
        l2 == At(parts, 2)
        l3 == At(parts, 3)
        l1Value == Get(update, l1)
        l2Value == Get(l1Value, l2)
    IN  IF l1Value.kind = "TypeError" THEN "TypeError"
        ELSE IF IsNullish(l1Value) THEN "false"
        ELSE IF l2 = UNDEF THEN "true"
        ELSE IF l2Value.kind = "TypeError" THEN "TypeError"
        ELSE IF IsNullish(l2Value) THEN "false"
        ELSE IF l3 = UNDEF THEN "true"
        ELSE testMaybeArray(l2Value, l3)

\* compile rejecting an empty list of paths
compile_EmptyThrows(paths) ==
    LET bad == {i \in 1..Len(paths) : buildPredicateErr(paths[i]) # ""}
    IN  IF paths = <<>>
        THEN [err |-> "Empty filter query given", predicates |-> <<>>]
        ELSE IF bad # {}
        THEN [err |-> buildPredicateErr(paths[CHOOSE i \in bad :
                                             \A j \in bad : i <= j]),
              predicates |-> <<>>]
        ELSE [err |-> "", predicates |-> paths]

\* compile(paths): err is the first exception of paths.map(buildPredicate)
compile(paths) ==
    LET bad == {i \in 1..Len(paths) : buildPredicateErr(paths[i]) # ""}
    IN  IF bad # {}
        THEN [err |-> buildPredicateErr(paths[CHOOSE i \in bad :
                                             \A j \in bad : i <= j]),
              predicates |-> <<>>]
        ELSE [err |-> "", predicates |-> paths]

RECURSIVE SomePredicate(_, _, _)
\* predicates.some((pred) => pred(update)), from index i on
SomePredicate(predicates, update, i) ==
    IF i > Len(predicates) THEN "false"
    ELSE LET r == Predicate(predicates[i], update)
         IN  IF r = "false" THEN SomePredicate(predicates, update, i + 1)
             ELSE r

RECURSIVE EveryPredicate(_, _, _)
\* predicates.every((pred) => pred(update)), from index i on
EveryPredicate(predicates, update, i) ==
    IF i > Len(predicates) THEN "true"
    ELSE LET r == Predicate(predicates[i], update)
         IN  IF r = "true" THEN EveryPredicate(predicates, update, i + 1)
             ELSE r

\* the combined predicate with every in place of some
Compiled_Every(predicates, update) == EveryPredicate(predicates, update, 1)

\* the closure compile(paths) returns, called with update
Compiled(predicates, update) == SomePredicate(predicates, update, 1)

RECURSIVE ExpandAll(_, _)
\* queries.flatMap((q) => expand(parse(q))), from index i on
ExpandAll(queries, i) ==
    IF i > Len(queries) THEN [err |-> "", paths |-> <<>>]
    ELSE LET e == expand(parse(queries[i]))
             rest == ExpandAll(queries, i + 1)
         IN  IF e.err # "" THEN e
             ELSE IF rest.err # "" THEN rest
             ELSE [err |-> "", paths |-> e.paths \o rest.paths]

\* runtimeQuery(query); query is [isArray, arr, str]
runtimeQuery(query) ==
    LET queries == IF query.isArray THEN query.arr ELSE <<query.str>>
        allPaths == ExpandAll(queries, 1)
    IN  IF allPaths.err # ""
        THEN [err |-> allPaths.err, predicates |-> <<>>]
        ELSE compile(allPaths.paths)

(***************************************************************************)
(* Inputs: query strings, arrays of query strings and updates.             *)
(***************************************************************************)
\* the text of one segment: a word, or nothing for the empty segment
Word(seg) == IF seg = "" THEN <<>> ELSE <<seg>>

RECURSIVE Join(_)
\* the query string whose segments are segs (segs is not empty)
Join(segs) ==
    IF Len(segs) = 1 THEN Word(segs[1])
    ELSE Word(Head(segs)) \o <<":">> \o Join(Tail(segs))

Segs1 == {"", "edit", "message", "constructor"}
Segs2 == {"", "media", "file", "photo", "text", "toString"}
Segs3 == {"", "url", "media_group_id"}

SegTuples ==
    {<<a>> : a \in Segs1}
        \cup {<<a, b>> : a \in Segs1, b \in Segs2}
        \cup {<<a, b, c>> : a \in {"", "message"},
                             b \in {"", "media", "photo"}, c \in Segs3}
        \cup {<<"", "", "", "url">>, <<"message", "photo", "url", "x">>}
        \cup {<<"media">>, <<"file", "photo">>, <<"message", "msg">>,
              <<"message", "edit">>, <<"", "", "media">>,
              <<"edit", "file", "msg">>}

\* the strings that occur as elements of an array of queries
ArraySegs ==
    {<<"">>, <<"", "photo">>, <<"", "video">>,
     <<"message", "entities", "url">>, <<"message", "toString">>}

QueryArrays ==
    UNION {[1..n -> ArraySegs] : n \in 0..MaxQueries}

StringQuery(segs) == [isArray |-> FALSE, arr |-> <<>>, str |-> Join(segs)]
ArrayQuery(a) ==
    [isArray |-> TRUE, arr |-> [i \in 1..Len(a) |-> Join(a[i])], str |-> <<>>]

\* elements of an array value, and single nested objects
ItemKinds == {"null", "type_url", "type_bold", "type_empty", "url", "url_null"}

MkItem(d) ==
    CASE d = "null" -> Null
      [] d = "type_url" -> Obj([k \in {"type"} |-> Str("url")])
      [] d = "type_bold" -> Obj([k \in {"type"} |-> Str("bold")])
      [] d = "type_empty" -> Obj([k \in {"type"} |-> Str("")])
      [] d = "empty_key" -> Obj([k \in {""} |-> Str("v")])
      [] d = "url" -> Obj([k \in {"url"} |-> Str("u")])
      [] d = "url_null" ->
            Obj([k \in {"type", "url"} |->
                    IF k = "type" THEN Str("bold") ELSE Null])

\* values of a property of a message: <<shape, items>>
L2Descs ==
    {<<s, <<>>>> : s \in {"null", "num0", "false", "estr"}}
        \cup {<<"item", <<d>>>> : d \in (ItemKinds \cup {"empty_key"}) \ {"null"}}
        \cup {<<"arr", a>> : a \in UNION {[1..n -> ItemKinds] : n \in 0..MaxItems}}

MkScalar(s) ==
    CASE s = "null" -> Null
      [] s = "num0" -> Num0
      [] s = "false" -> False
      [] s = "estr" -> Str("")

MkL2(d) ==
    CASE d[1] = "item" -> MkItem(d[2][1])
      [] d[1] = "arr" -> Arr([i \in 1..Len(d[2]) |-> MkItem(d[2][i])])
      [] OTHER -> MkScalar(d[1])

Keys1 == {"message", "channel_post", "edited_message", "edited_channel_post"}
Keys2 == {"photo", "video", "entities", "text"}

\* an update with one update type k1: the value under k1 is a scalar, an
\* array, or a message with the property k2 and, when sib, a media_group_id
EventDescs ==
    {<<k1, s, "", <<"null", <<>>>>, FALSE>> :
        k1 \in Keys1, s \in {"null", "num0", "false", "estr", "arr", "empty"}}
    \cup {<<k1, "obj", k2, v, FALSE>> :
            k1 \in Keys1, k2 \in Keys2, v \in L2Descs}
    \cup {<<k1, "obj", "photo", v, TRUE>> : k1 \in Keys1, v \in L2Descs}

MkL1(d) ==
    CASE d[2] = "arr" -> Arr(<<Obj([k \in {"photo"} |-> Str("p")])>>)
      [] d[2] = "empty" -> Obj(<<>>)
      [] d[2] = "obj" ->
            Obj([k \in {d[3]} \cup (IF d[5] THEN {"media_group_id"} ELSE {}) |->
                    IF k = d[3] THEN MkL2(d[4]) ELSE Str("mg1")])
      [] OTHER -> MkScalar(d[2])

MkEvent(d) ==
    Obj([k \in {"update_id", d[1]} |->
            IF k = "update_id" THEN Num0 ELSE MkL1(d)])

(***************************************************************************)
(* The state machine: a caller compiles queries and calls the predicate    *)
(* the last successful runtimeQuery returned.                              *)
(***************************************************************************)
VARIABLES
    pc,       \* "init", "compiled" (a predicate was returned), "thrown",
              \* "called" (the predicate was called)
    query,    \* the argument of the last runtimeQuery
    result,   \* what it produced: the exception or the predicates
    update,   \* ctx.update of the last call of the predicate
    outcome,  \* completion of that call: "true", "false", "TypeError"
    received, \* that update as the caller held it before the call
    shortcuts \* the contents of the two shortcut tables

vars == <<pc, query, result, update, outcome, received, shortcuts>>

Init ==
    /\ pc = "init"
    /\ query = [isArray |-> FALSE, arr |-> <<>>, str |-> <<>>]
    /\ result = [err |-> "", predicates |-> <<>>]
    /\ update = Undefined
    /\ outcome = "none"
    /\ received = Undefined
    /\ shortcuts = <<L1_SHORTCUTS, L2_SHORTCUTS>>

Compile(q) ==
    /\ pc \in {"init", "compiled", "thrown"}
    /\ query' = q
    /\ result' = runtimeQuery(q)
    /\ pc' = IF result'.err = "" THEN "compiled" ELSE "thrown"
    /\ UNCHANGED <<update, outcome, received, shortcuts>>

RuntimeQueryString == \E segs \in SegTuples : Compile(StringQuery(segs))

RuntimeQueryArray == \E a \in QueryArrays : Compile(ArrayQuery(a))

\* a call that deletes the update type from the update it was given
Call_DeletesUpdateType ==
    /\ pc = "compiled"
    /\ \E d \in EventDescs :
        /\ received' = MkEvent(d)
        /\ update' = Obj([k \in {"update_id"} |-> Num0])
        /\ outcome' = Compiled(result.predicates, MkEvent(d))
    /\ pc' = "called"
    /\ UNCHANGED <<query, result, shortcuts>>

\* the returned closure is called with a context: predicate(ctx.update);
\* the predicate only reads the update and the tables
Call ==
    /\ pc = "compiled"
    /\ \E d \in EventDescs :
        /\ received' = MkEvent(d)
        /\ update' = MkEvent(d)
        /\ outcome' = Compiled(result.predicates, MkEvent(d))
    /\ pc' = "called"
    /\ UNCHANGED <<query, result, shortcuts>>

\* the call completes; the predicate stays available for the next update
Return ==
    /\ pc = "called"
    /\ pc' = "compiled"
    /\ update' = Undefined
    /\ outcome' = "none"
    /\ received' = Undefined
    /\ UNCHANGED <<query, result, shortcuts>>

Next == RuntimeQueryString \/ RuntimeQueryArray \/ Call \/ Return

Spec == Init /\ [][Next]_vars

(***************************************************************************)
(* Vocabulary of the properties.                                           *)
(***************************************************************************)
\* the query strings handed to the last runtimeQuery
Inputs == IF query.isArray THEN query.arr ELSE <<query.str>>

\* the first three segments of the query string s are all empty or absent
FullyEmpty(s) == \A i \in 1..Len(s) : i <= 3 => s[i] = ":"

\* the query string s compiles on its own
Valid(s) == runtimeQuery([isArray |-> FALSE, arr |-> <<>>, str |-> s]).err = ""

\* a word that is a literal at level 1, at level 2
Literal1(w) == w # ":" /\ w \notin DOMAIN L1_SHORTCUTS
Literal2(w) == w # ":" /\ w \notin DOMAIN L2_SHORTCUTS

\* the last query was the single string k, k1:k2, k1:k2:k3 of literals
IsL1Query == ~query.isArray /\ Len(query.str) = 1 /\ Literal1(query.str[1])
IsL2Query ==
    /\ ~query.isArray /\ Len(query.str) = 3
    /\ Literal1(query.str[1]) /\ query.str[2] = ":" /\ Literal2(query.str[3])
IsL3Query ==
    /\ ~query.isArray /\ Len(query.str) = 5
    /\ Literal1(query.str[1]) /\ query.str[2] = ":" /\ Literal2(query.str[3])
    /\ query.str[4] = ":" /\ query.str[5] # ":"

\* v is present and non-null
Present(v) == v.kind \notin {"undefined", "null", "TypeError"}

\* E[k1][k2], undefined when E[k1] is missing or null
Get2(E, k1, k2) == IF Present(Get(E, k1)) THEN Get(Get(E, k1), k2) ELSE Undefined

\* the elements L3 is matched against: V itself when it is not a sequence
Elements(V) == IF V.kind = "array" THEN V.elems ELSE <<V>>

\* the dual match rule for one element
ElementMatches(x, k3) ==
    /\ Present(x)
    /\ \/ Present(Get(x, k3))
       \/ Get(x, "type").kind = "string" /\ Get(x, "type").prim = k3

SomeElementMatches(V, k3) ==
    \E i \in 1..Len(Elements(V)) : ElementMatches(Elements(V)[i], k3)

Bool(b) == IF b THEN "true" ELSE "false"

(***************************************************************************)
(* C1.  Sibling fallback: for a concrete path (l1, l2, l3) of the compiled *)
(* predicate and an update E with E[l1] and E[l1][l2] present and non-null *)
(* in which no element of E[l1][l2] matches l3, the predicate still        *)
(* returns true when E[l1][l3] is present and non-null.                    *)
(***************************************************************************)
SiblingFallback ==
    pc = "called" =>
        \A i \in 1..Len(result.predicates) :
            LET l1 == At(result.predicates[i], 1)
                l2 == At(result.predicates[i], 2)
                l3 == At(result.predicates[i], 3)
            IN  (/\ l2 # UNDEF /\ l3 # UNDEF
                 /\ Present(Get2(update, l1, l2))
                 /\ ~SomeElementMatches(Get2(update, l1, l2), l3)
                 /\ Present(Get2(update, l1, l3)))
                    => outcome = "true"

(***************************************************************************)
(* C2.  runtimeQuery throws, and returns no predicate, whenever one of its *)
(* query strings has its first three segments all empty or absent; the     *)
(* exception is "Empty filter query given" when every other string of the  *)
(* input is fully empty too or compiles on its own.                        *)
(***************************************************************************)
EmptyQueryRaises ==
    (pc # "init" /\ \E i \in 1..Len(Inputs) : FullyEmpty(Inputs[i])) =>
        /\ pc = "thrown"
        /\ result.err # ""
        /\ result.predicates = <<>>
        /\ (\A i \in 1..Len(Inputs) : FullyEmpty(Inputs[i]) \/ Valid(Inputs[i]))
              => result.err = "Empty filter query given"

\* an array with an empty query next to a valid one was rejected
EmptyQueryRaisesWitness ==
    /\ pc = "thrown" /\ query.isArray /\ Len(query.arr) = 2
    /\ FullyEmpty(query.arr[2]) /\ ~FullyEmpty(query.arr[1])
    /\ Valid(query.arr[1])
    /\ result.err = "Empty filter query given"

(***************************************************************************)
(* C3.  The predicate of the one-segment literal query k returns true      *)
(* exactly when E[k] is present and non-null, whatever its shape.          *)
(***************************************************************************)
L1Existence ==
    (pc = "called" /\ IsL1Query) =>
        outcome = Bool(Present(Get(update, query.str[1])))

\* a scalar 0 under the queried key was accepted
L1ExistenceWitness ==
    /\ pc = "called" /\ IsL1Query
    /\ Get(update, query.str[1]).kind = "number"
    /\ outcome = "true"

(***************************************************************************)
(* C4.  The predicate of the two-segment literal query k1:k2 returns true  *)
(* exactly when E[k1] and E[k1][k2] are present and non-null.              *)
(***************************************************************************)
L2Existence ==
    (pc = "called" /\ IsL2Query) =>
        outcome = Bool(Present(Get2(update, query.str[1], query.str[3])))

\* an empty array under k2, with nothing inside to inspect, was accepted
L2ExistenceWitness ==
    /\ pc = "called" /\ IsL2Query
    /\ Get2(update, query.str[1], query.str[3]).kind = "array"
    /\ Get2(update, query.str[1], query.str[3]).elems = <<>>
    /\ outcome = "true"

(***************************************************************************)
(* C5.  L3 dual match rule: for the literal query k1:k2:k3 and E[k1][k2]   *)
(* present and non-null, the predicate returns true when E[k1][k2] itself  *)
(* or one of its elements has a non-null property k3 or a type equal to    *)
(* k3; when none has and E[k1] has no non-null k3 either, it returns false.*)
(***************************************************************************)
L3DualMatch ==
    LET k1 == query.str[1]
        k2 == query.str[3]
        k3 == query.str[5]
    IN  (pc = "called" /\ IsL3Query /\ Present(Get2(update, k1, k2))) =>
            /\ SomeElementMatches(Get2(update, k1, k2), k3) => outcome = "true"
            /\ (/\ ~SomeElementMatches(Get2(update, k1, k2), k3)
                /\ ~Present(Get2(update, k1, k3))) => outcome = "false"

\* the second of two elements matched by its type alone
L3DualMatchWitness ==
    LET V == Get2(update, query.str[1], query.str[3])
    IN  /\ pc = "called" /\ IsL3Query
        /\ V.kind = "array" /\ Len(V.elems) = 2
        /\ ~ElementMatches(V.elems[1], query.str[5])
        /\ ~Present(Get(V.elems[2], query.str[5]))
        /\ ElementMatches(V.elems[2], query.str[5])
        /\ outcome = "true"

(***************************************************************************)
(* C6.  Shortcut expansion distributes over OR: the predicate of a query   *)
(* string q accepts an update exactly when the predicate of the array of   *)
(* literal queries does, the array being the cross-product of q's L1       *)
(* expansion and q's L2 expansion, each keeping q's third segment; the     *)
(* same holds for the array that expands the first segment only.           *)
(***************************************************************************)
\* the expansion set of a segment at level 1, at level 2
X1(l1) == IF l1 \in DOMAIN L1_SHORTCUTS THEN L1_SHORTCUTS[l1] ELSE <<l1>>
X2(l2) ==
    IF l2 # UNDEF /\ l2 \in DOMAIN L2_SHORTCUTS THEN L2_SHORTCUTS[l2]
    ELSE <<l2>>

\* the query string of the segments a, b, c, absent ones left out
PathQuery(a, b, c) ==
    IF b = UNDEF THEN Join(<<a>>)
    ELSE IF c = UNDEF THEN Join(<<a, b>>)
    ELSE Join(<<a, b, c>>)

CrossProduct(l1, l2, l3) ==
    [n \in 1..(Len(X1(l1)) * Len(X2(l2))) |->
        PathQuery(X1(l1)[((n - 1) \div Len(X2(l2))) + 1],
                  X2(l2)[((n - 1) % Len(X2(l2))) + 1], l3)]

L1Product(l1, l2, l3) ==
    [n \in 1..Len(X1(l1)) |-> PathQuery(X1(l1)[n], l2, l3)]

\* the verdict on the update of the predicate compiled from the array a
ArrayVerdict(a) ==
    LET r == runtimeQuery([isArray |-> TRUE, arr |-> a, str |-> <<>>])
    IN  IF r.err # "" THEN r.err ELSE Compiled(r.predicates, update)

ExpansionDistributes ==
    LET segs == parse(query.str)
    IN  (pc = "called" /\ ~query.isArray) =>
            /\ outcome = ArrayVerdict(CrossProduct(At(segs, 1), At(segs, 2),
                                                   At(segs, 3)))
            /\ outcome = ArrayVerdict(L1Product(At(segs, 1), At(segs, 2),
                                                At(segs, 3)))

\* ":media" accepted a channel post with a video
ExpansionDistributesWitness ==
    /\ pc = "called" /\ ~query.isArray
    /\ query.str = <<":", "media">>
    /\ Present(Get2(update, "channel_post", "video"))
    /\ outcome = "true"

(***************************************************************************)
(* C7.  OR-combination: the predicate of a non-empty array of query        *)
(* strings returns true exactly when the predicate of one of its strings   *)
(* alone does; reversing the array or repeating its strings changes        *)
(* nothing.                                                                *)
(***************************************************************************)
Reverse(a) == [i \in 1..Len(a) |-> a[Len(a) + 1 - i]]

OrCombination ==
    (pc = "called" /\ query.isArray /\ query.arr # <<>>) =>
        /\ outcome = Bool(\E i \in 1..Len(query.arr) :
                              ArrayVerdict(<<query.arr[i]>>) = "true")
        /\ outcome = ArrayVerdict(Reverse(query.arr))
        /\ outcome = ArrayVerdict(query.arr \o query.arr)

\* only the second of two different queries accepts the update
OrCombinationWitness ==
    /\ pc = "called" /\ query.isArray /\ Len(query.arr) = 2
    /\ ArrayVerdict(<<query.arr[1]>>) = "false"
    /\ ArrayVerdict(<<query.arr[2]>>) = "true"
    /\ outcome = "true"

OnlyEmptyQueryRaises ==
    (pc \in {"compiled", "thrown", "called"}
        /\ \A i \in 1..Len(Inputs) : ~FullyEmpty(Inputs[i]))
      => result.err = ""

(***************************************************************************)
(* C10.  Compiling the empty array of query strings throws "Empty filter   *)
(* query given".                                                           *)
(***************************************************************************)
EmptyArrayRaises ==
    (pc # "init" /\ query.isArray /\ query.arr = <<>>) =>
        pc = "thrown" /\ result.err = "Empty filter query given"

(***************************************************************************)
(* C10, amended.  Compiling the empty array of query strings throws        *)
(* nothing: it returns a predicate over no paths, false on every update.   *)
(***************************************************************************)
EmptyArrayCompiles ==
    (pc # "init" /\ query.isArray /\ query.arr = <<>>) =>
        /\ pc \in {"compiled", "called"}
        /\ result.err = ""
        /\ result.predicates = <<>>
        /\ pc = "called" => outcome = "false"

\* the predicate of the empty array rejected an update with a photo message
EmptyArrayCompilesWitness ==
    /\ pc = "called" /\ query.isArray /\ query.arr = <<>>
    /\ Present(Get2(update, "message", "photo"))
    /\ outcome = "false"

(***************************************************************************)
(* C11.  Literal pass-through per level: a first segment that is not a key *)
(* of the L1 table and a second segment that is not a key of the L2 table  *)
(* pass through expansion unchanged, one value per level; the tables are   *)
(* level-specific, so an L1 key in second position and an L2 key in first  *)
(* position are literals.                                                  *)
(***************************************************************************)
LiteralPassThrough ==
    LET segs == parse(query.str)
        l1 == At(segs, 1)
        l2 == At(segs, 2)
        l3 == At(segs, 3)
    IN  (pc # "init" /\ ~query.isArray) =>
            /\ (l1 \notin DOMAIN L1_SHORTCUTS
                    /\ (l2 = UNDEF \/ l2 \notin DOMAIN L2_SHORTCUTS))
                  => /\ result.err = ""
                     /\ result.predicates = <<<<l1, l2, l3>>>>
            /\ l1 \notin DOMAIN L1_SHORTCUTS
                  => /\ result.err = ""
                     /\ \A i \in 1..Len(result.predicates) :
                            result.predicates[i][1] = l1
            /\ (l1 # "" /\ l2 # UNDEF /\ l2 \notin DOMAIN L2_SHORTCUTS)
                  => /\ result.err = ""
                     /\ \A i \in 1..Len(result.predicates) :
                            result.predicates[i][2] = l2

ExpanderStructure ==
    LET segs == parse(query.str)
        l1 == At(segs, 1)
        l2 == At(segs, 2)
        l3 == At(segs, 3)
        n2 == Len(X2(l2))
    IN  (pc # "init" /\ ~query.isArray /\ ~FullyEmpty(query.str)) =>
            /\ result.err = ""
            /\ Len(result.predicates) = Len(X1(l1)) * n2
            /\ \A n \in 1..Len(result.predicates) :
                   result.predicates[n] =
                       <<X1(l1)[((n - 1) \div n2) + 1],
                         X2(l2)[((n - 1) % n2) + 1], l3>>

(***************************************************************************)
(* C14.  An empty third segment is not an absent one: for literals k1 and  *)
(* k2 the predicate of "k1:k2:" accepts an update only if E[k1][k2] or one *)
(* of its elements has a non-null property named "" or a type equal to "", *)
(* so it rejects updates that the predicate of "k1:k2" accepts.            *)
(***************************************************************************)
\* the last query was the single string k1:k2: of literals
IsTrailingQuery ==
    /\ ~query.isArray /\ Len(query.str) = 4
    /\ Literal1(query.str[1]) /\ query.str[2] = ":" /\ Literal2(query.str[3])
    /\ query.str[4] = ":"

EmptyL3NotAbsent ==
    LET k1 == query.str[1]
        k2 == query.str[3]
        V == Get2(update, k1, k2)
    IN  (pc = "called" /\ IsTrailingQuery) =>
            /\ outcome = "true" => (Present(V) /\ SomeElementMatches(V, ""))
            /\ (Present(V) /\ ~SomeElementMatches(V, "")) =>
                  /\ outcome = "false"
                  /\ ArrayVerdict(<<<<k1, ":", k2>>>>) = "true"

\* "k1:k2:" rejected an update with a url entity that "k1:k2" accepts
EmptyL3NotAbsentWitness ==
    LET V == Get2(update, query.str[1], query.str[3])
    IN  /\ pc = "called" /\ IsTrailingQuery
        /\ V.kind = "array" /\ Len(V.elems) = 1
        /\ ElementMatches(V.elems[1], "url")
        /\ outcome = "false"
        /\ ArrayVerdict(<<<<query.str[1], ":", query.str[3]>>>>) = "true"

====
